---------------------------- MODULE Spec2Model ----------------------------
(***************************************************************************)
(* A model of raystack_core: the Haystack scalar value types (Number, Ref, *)
(* Symbol, Coord, Marker, RemoveMarker, Na, Uri, Xstr) and their Hayson    *)
(* (JSON) codec.  Every operation of the library is a pure function; the   *)
(* state machine below is a caller that constructs values, encodes them,   *)
(* decodes JSON and validates strings, and records each call with its      *)
(* argument and its return value.                                          *)
(* The variables hold records throughout: an argument is a record of the   *)
(* call's parameters, a returned bool b is recorded as [bool |-> b].       *)
(*                                                                         *)
(* Representation                                                          *)
(*   Rust String / &str   a sequence of one-character strings              *)
(*   Option<T>            << >> for None, << v >> for Some(v)              *)
(*   Result<T, E>         [ok |-> TRUE, v |-> _] / [ok |-> FALSE, e |-> _] *)
(*   f64                  [c, m, x]: c = "nan", c = "inf" (sign in m), or  *)
(*                        c = "fin" with value m * 10^x, a decimal         *)
(*                        floating point number whose exponent range       *)
(*                        -MaxExp10 .. MaxExp10 stands for the range of a  *)
(*                        binary64 (about 1e-308 .. 1e308)                 *)
(*   serde_json::Value    [k |-> "null" | "bool" | "num" | "str" | "arr" | *)
(*                        "obj", ...]; an object carries o, a function     *)
(*                        from its keys to values                          *)
(***************************************************************************)
EXTENDS Integers, Sequences, FiniteSets, TLC

VARIABLES
    call,   \* the operation called last
    arg,    \* its argument
    ret,    \* its return value
    held,   \* the domain value the caller constructed last
    json,   \* the JSON value the caller has in hand
    src     \* where json comes from: "none", "encoded" (to_hayson of held),
            \* "encoded_string" (to_encoded_json_string of held), "supplied",
            \* "reencoded" (ret is to_hayson of the Number decoded from json)

vars == <<call, arg, ret, held, json, src>>

---------------------------------------------------------------------------
(* Bounds of the model *)

\* finite doubles have a significand in -MaxMant .. MaxMant
MaxMant == 2
\* finite doubles have a decimal exponent in -MaxExp10 .. MaxExp10
MaxExp10 == 2
\* i32 exponents of scientific Numbers are drawn from -MaxI32 .. MaxI32
MaxI32 == 5
\* the strings handed to the Ref validator have at most MaxRefLen characters
MaxRefLen == 3
\* the strings handed to the Symbol validator have at most MaxSymbolLen characters
MaxSymbolLen == 4
\* the strings handed to the decoders of the `r:` and `y:` forms have at most
\* MaxEncodedLen characters
MaxEncodedLen == 4

---------------------------------------------------------------------------
(* Option and Result *)

None == << >>
Some(v) == << v >>
is_none(o) == o = << >>
is_some(o) == o # << >>
Ok(v) == [ok |-> TRUE, v |-> v]
Err(e) == [ok |-> FALSE, e |-> e]

\* what a call returns when it panics
Panic == [panic |-> TRUE]
\* Option::unwrap
unwrap(o) == IF is_none(o) THEN Panic ELSE o[1]

---------------------------------------------------------------------------
(* f64 *)

NAN == [c |-> "nan", m |-> 0, x |-> 0]
INFINITY == [c |-> "inf", m |-> 1, x |-> 0]
NEG_INFINITY == [c |-> "inf", m |-> -1, x |-> 0]
Fin(m, x) == [c |-> "fin", m |-> m, x |-> IF m = 0 THEN 0 ELSE x]

is_nan(f) == f.c = "nan"
is_infinite(f) == f.c = "inf"
is_finite(f) == f.c = "fin"
\* variant: the sign is not looked at
is_sign_positive_any(f) == TRUE
is_sign_positive(f) == f.m >= 0
is_sign_negative(f) == f.m < 0

\* f64's PartialEq: NaN differs from everything, itself included
F64Eq(a, b) == ~is_nan(a) /\ ~is_nan(b) /\ a = b

Sign(n) == IF n < 0 THEN -1 ELSE IF n > 0 THEN 1 ELSE 0

RECURSIVE NumDigits(_)
\* the number of decimal digits of the integer n # 0
NumDigits(n) ==
    IF n < 0 THEN NumDigits(-n) ELSE IF n < 10 THEN 1 ELSE 1 + NumDigits(n \div 10)

RECURSIVE Round10(_, _)
\* the finite double m * 10^x, with trailing decimal zeros moved to the exponent,
\* overflowing to an infinity and underflowing to zero: it is finite and not
\* zero when its decimal order of magnitude is in -MaxExp10 .. MaxExp10.
\* Significands are short enough to be exact.
Round10(m, x) ==
    IF m = 0 THEN Fin(0, 0)
    ELSE IF m % 10 = 0 THEN Round10(m \div 10, x + 1)
    ELSE IF x + NumDigits(m) - 1 > MaxExp10
         THEN (IF m > 0 THEN INFINITY ELSE NEG_INFINITY)
    ELSE IF x + NumDigits(m) - 1 < -MaxExp10 THEN Fin(0, 0)
    ELSE Fin(m, x)

\* a * b on f64
F64Mul(a, b) ==
    IF is_nan(a) \/ is_nan(b) THEN NAN
    ELSE IF is_infinite(a) \/ is_infinite(b)
         THEN (IF a.m = 0 \/ b.m = 0 THEN NAN
               ELSE IF Sign(a.m) * Sign(b.m) > 0 THEN INFINITY ELSE NEG_INFINITY)
    ELSE Round10(a.m * b.m, a.x + b.x)

\* 10f64.powi(e)
Powi10(e) == Round10(1, e)

FiniteF64 ==
    {Fin(m, x) : m \in (-MaxMant .. MaxMant) \ {0}, x \in -MaxExp10 .. MaxExp10}
        \cup {Fin(0, 0)}
F64 == FiniteF64 \cup {NAN, INFINITY, NEG_INFINITY}
I32 == -MaxI32 .. MaxI32

---------------------------------------------------------------------------
(* Strings and characters *)

AsciiLower ==
    {"a", "b", "c", "d", "e", "f", "g", "h", "i", "j", "k", "l", "m",
     "n", "o", "p", "q", "r", "s", "t", "u", "v", "w", "x", "y", "z"}
AsciiUpper ==
    {"A", "B", "C", "D", "E", "F", "G", "H", "I", "J", "K", "L", "M",
     "N", "O", "P", "Q", "R", "S", "T", "U", "V", "W", "X", "Y", "Z"}
AsciiDigit == {"0", "1", "2", "3", "4", "5", "6", "7", "8", "9"}

\* char::is_alphanumeric, on the ASCII characters of the model
is_alphanumeric(c) == c \in AsciiLower \cup AsciiUpper \cup AsciiDigit

RECURSIVE StringsUpTo(_, _)
\* the strings over an alphabet of at most n characters
StringsUpTo(alphabet, n) ==
    IF n = 0 THEN {<< >>}
    ELSE LET shorter == StringsUpTo(alphabet, n - 1) IN
         shorter \cup {Append(s, c) : s \in {t \in shorter : Len(t) = n - 1},
                                      c \in alphabet}

\* the rest of s from its (1-based) position i
Tail_from(s, i) == SubSeq(s, i, Len(s))

RECURSIVE split(_, _)
\* str::split(sep): the sections of s between the occurrences of sep
split(s, sep) ==
    IF \E i \in 1 .. Len(s) : s[i] = sep
    THEN LET i == CHOOSE i \in 1 .. Len(s) :
                     s[i] = sep /\ \A j \in 1 .. i - 1 : s[j] # sep
         IN <<SubSeq(s, 1, i - 1)>> \o split(Tail_from(s, i + 1), sep)
    ELSE <<s>>

\* str::find(pat): the (1-based) position of the first occurrence of pat in s,
\* 0 when there is none
find(s, pat) ==
    LET at == {i \in 1 .. Len(s) - Len(pat) + 1 : SubSeq(s, i, i + Len(pat) - 1) = pat}
    IN IF at = {} THEN 0 ELSE CHOOSE i \in at : \A j \in at : i <= j

\* str::replacen(pat, to, 1): s with the first occurrence of pat replaced by to
replacen(s, pat, to) ==
    LET i == find(s, pat) IN
    IF i = 0 THEN s
    ELSE SubSeq(s, 1, i - 1) \o to \o Tail_from(s, i + Len(pat))

is_whitespace(c) == c \in {" ", "\t", "\n"}

RECURSIVE trim_start(_)
trim_start(s) ==
    IF s # << >> /\ is_whitespace(s[1]) THEN trim_start(Tail(s)) ELSE s

RECURSIVE trim_end(_)
trim_end(s) ==
    IF s # << >> /\ is_whitespace(s[Len(s)])
    THEN trim_end(SubSeq(s, 1, Len(s) - 1))
    ELSE s

\* str::trim
trim(s) == trim_end(trim_start(s))

UpperLetters ==
    <<"A", "B", "C", "D", "E", "F", "G", "H", "I", "J", "K", "L", "M",
      "N", "O", "P", "Q", "R", "S", "T", "U", "V", "W", "X", "Y", "Z">>
LowerLetters ==
    <<"a", "b", "c", "d", "e", "f", "g", "h", "i", "j", "k", "l", "m",
      "n", "o", "p", "q", "r", "s", "t", "u", "v", "w", "x", "y", "z">>

\* variant: the case is not folded
to_ascii_lowercase_identity(s) == s

\* str::to_ascii_lowercase / eq_ignore_ascii_case
to_ascii_lowercase(s) ==
    [i \in 1 .. Len(s) |->
        IF s[i] \in AsciiUpper
        THEN LowerLetters[CHOOSE k \in 1 .. Len(UpperLetters) : UpperLetters[k] = s[i]]
        ELSE s[i]]

Digits == <<"0", "1", "2", "3", "4", "5", "6", "7", "8", "9">>
DigitVal(c) == (CHOOSE k \in 1 .. Len(Digits) : Digits[k] = c) - 1
is_digits(s) == \A i \in 1 .. Len(s) : s[i] \in AsciiDigit

RECURSIVE strip_zeros(_)
\* s without its leading zeros
strip_zeros(s) == IF s # << >> /\ s[1] = "0" THEN strip_zeros(Tail(s)) ELSE s

RECURSIVE DigitsToNat(_)
\* the number a string of digits denotes
DigitsToNat(s) ==
    IF s = << >> THEN 0
    ELSE 10 * DigitsToNat(SubSeq(s, 1, Len(s) - 1)) + DigitVal(s[Len(s)])

ParseIntError == [parse_int_error |-> TRUE]
ParseFloatError == [parse_float_error |-> TRUE]

\* the greatest i32 is I32_MAX_DIV10 * 10 + 7, the least -(I32_MAX_DIV10 * 10 + 8)
I32_MAX_DIV10 == 214748364

\* variant: a leading `+` is not accepted
parse_i32_unsigned(s) ==
    LET negative == s # << >> /\ s[1] = "-"
        digits == IF negative THEN Tail(s) ELSE s
    IN
    IF digits = << >> \/ ~is_digits(digits) \/ Len(strip_zeros(digits)) > 9
    THEN Err(ParseIntError)
    ELSE Ok((IF negative THEN -1 ELSE 1) * DigitsToNat(digits))

\* <i32 as FromStr>::from_str: an optional sign and one or more digits, whose
\* value fits in 32 bits
parse_i32(s) ==
    LET signed == s # << >> /\ s[1] \in {"+", "-"}
        negative == signed /\ s[1] = "-"
        digits == IF signed THEN Tail(s) ELSE s
        sig == strip_zeros(digits)
        head == SubSeq(sig, 1, Len(sig) - 1)
        last == DigitVal(sig[Len(sig)])
        fits == \/ Len(sig) <= 9
                \/ /\ Len(sig) = 10
                   /\ \/ DigitsToNat(head) < I32_MAX_DIV10
                      \/ /\ DigitsToNat(head) = I32_MAX_DIV10
                         /\ last <= (IF negative THEN 8 ELSE 7)
    IN
    IF digits = << >> \/ ~is_digits(digits) THEN Err(ParseIntError)
    ELSE IF ~fits THEN Err(ParseIntError)
    ELSE IF Len(sig) = 10 /\ negative /\ last = 8 /\ DigitsToNat(head) = I32_MAX_DIV10
         THEN Ok(-(I32_MAX_DIV10 * 10) - 8)
    ELSE Ok((IF negative THEN -1 ELSE 1) * DigitsToNat(sig))

\* the decimal exponent written after e or E in a float literal: an optional
\* sign and one or more digits; an exponent of more than three digits is far
\* outside the range of the doubles whatever its digits are
parse_float_exponent(s) ==
    LET signed == s # << >> /\ s[1] \in {"+", "-"}
        digits == IF signed THEN Tail(s) ELSE s
        sig == strip_zeros(digits)
    IN
    IF digits = << >> \/ ~is_digits(digits) THEN None
    ELSE Some((IF signed /\ s[1] = "-" THEN -1 ELSE 1)
                * (IF Len(sig) > 3 THEN 1000 ELSE DigitsToNat(sig)))

\* <f64 as FromStr>::from_str: an optional sign, then either digits with an
\* optional point and an optional exponent (at least one digit before the
\* exponent), or one of inf, infinity and nan in any case
parse_f64(s) ==
    LET signed == s # << >> /\ s[1] \in {"+", "-"}
        negative == signed /\ s[1] = "-"
        rest == IF signed THEN Tail(s) ELSE s
        marks == {i \in 1 .. Len(rest) : rest[i] \in {"e", "E"}}
        mark == IF marks = {} THEN Len(rest) + 1
                ELSE CHOOSE i \in marks : \A j \in marks : i <= j
        mantissa == SubSeq(rest, 1, mark - 1)
        exponent == IF marks = {} THEN Some(0)
                    ELSE parse_float_exponent(Tail_from(rest, mark + 1))
        point == find(mantissa, <<".">>)
        int_part == IF point = 0 THEN mantissa ELSE SubSeq(mantissa, 1, point - 1)
        frac_part == IF point = 0 THEN << >> ELSE Tail_from(mantissa, point + 1)
        digits == int_part \o frac_part
        word == to_ascii_lowercase(rest)
    IN
    IF digits # << >> /\ is_digits(digits) /\ is_some(exponent)
    THEN Ok(Round10((IF negative THEN -1 ELSE 1) * DigitsToNat(strip_zeros(digits)),
                    unwrap(exponent) - Len(frac_part)))
    ELSE IF word = <<"n", "a", "n">> THEN Ok(NAN)
    ELSE IF word \in {<<"i", "n", "f">>, <<"i", "n", "f", "i", "n", "i", "t", "y">>}
         THEN Ok(IF negative THEN NEG_INFINITY ELSE INFINITY)
    ELSE Err(ParseFloatError)

RECURSIVE NatToDigits(_)
\* the decimal digits of a natural number, as Display writes them
NatToDigits(n) ==
    IF n < 10 THEN <<Digits[n + 1]>>
    ELSE NatToDigits(n \div 10) \o <<Digits[(n % 10) + 1]>>

\* n times the character 0
Zeros(n) == [i \in 1 .. n |-> "0"]

\* <i32 as Display>::fmt
fmt_i32(n) == IF n < 0 THEN <<"-">> \o NatToDigits(-n) ELSE NatToDigits(n)

\* <f64 as Display>::fmt: NaN, inf, -inf, and a finite value in positional
\* notation without an exponent
fmt_f64(f) ==
    IF is_nan(f) THEN <<"N", "a", "N">>
    ELSE IF is_infinite(f)
         THEN (IF f.m < 0 THEN <<"-", "i", "n", "f">> ELSE <<"i", "n", "f">>)
    ELSE LET digits == NatToDigits(IF f.m < 0 THEN -f.m ELSE f.m)
             n == Len(digits)
             text == IF f.x >= 0 THEN digits \o Zeros(f.x)
                     ELSE IF -f.x < n
                          THEN SubSeq(digits, 1, n + f.x) \o <<".">>
                                 \o SubSeq(digits, n + f.x + 1, n)
                     ELSE <<"0", ".">> \o Zeros(-f.x - n) \o digits
         IN IF f.m < 0 THEN <<"-">> \o text ELSE text

S_kind == "_kind"

S_coord == <<"c", "o", "o", "r", "d">>
S_ref == <<"r", "e", "f">>
S_number == <<"n", "u", "m", "b", "e", "r">>
S_symbol == <<"s", "y", "m", "b", "o", "l">>
S_marker == <<"m", "a", "r", "k", "e", "r">>
S_remove == <<"r", "e", "m", "o", "v", "e">>
S_na == <<"n", "a">>
S_uri == <<"u", "r", "i">>
S_xstr == <<"x", "s", "t", "r">>

S_INF == <<"I", "N", "F">>
\* variant: the literal in lower case
S_NegINF_lower == <<"-", "i", "n", "f">>
S_NegINF == <<"-", "I", "N", "F">>
S_NaN == <<"N", "a", "N">>

---------------------------------------------------------------------------
(* serde_json::Value *)

JNull == [k |-> "null"]
JBool(b) == [k |-> "bool", b |-> b]
JNum(f) == [k |-> "num", f |-> f]
JStr(s) == [k |-> "str", s |-> s]
JArr == [k |-> "arr"]
JObj(o) == [k |-> "obj", o |-> o]

\* json!(f) of an f64: serde_json has no number for NaN and the infinities, and
\* serializes them as null
JsonOfF64(f) == IF is_finite(f) THEN JNum(f) ELSE JNull
\* variant: the unit is not written
JsonOfOptStr_null(o) == JNull
\* json!(o) of an Option<&str>
JsonOfOptStr(o) == IF is_none(o) THEN JNull ELSE JStr(unwrap(o))

\* Value::get / Map::get
Get(value, key) ==
    IF value.k = "obj" /\ key \in DOMAIN value.o THEN Some(value.o[key]) ELSE None
\* variant: null is not recognized
is_null_never(value) == FALSE
is_null(value) == value.k = "null"
as_str(value) == IF value.k = "str" THEN Some(value.s) ELSE None
as_f64(value) == IF value.k = "num" THEN Some(value.f) ELSE None

---------------------------------------------------------------------------
(* FromHaysonError: a message, here a format string and its arguments *)

FromHaysonError(fmt, args) == [fmt |-> fmt, args |-> args]
error(message) == Err(FromHaysonError(message, << >>))
error_opt(message) == Some(FromHaysonError(message, << >>))

MsgMissingKind == "Missing '_kind' key"
MsgKindNotString == "'_kind' key is not a string"
MsgKindMismatch == "Expected '_kind' = {} but found {}"

\* variant: an absent key passes
check_kind_absent_passes(target_kind, value) ==
    LET kind == Get(value, S_kind) IN
    IF is_some(kind)
    THEN IF unwrap(kind).k = "str"
         THEN IF unwrap(kind).s = target_kind
              THEN None
              ELSE Some(FromHaysonError(MsgKindMismatch,
                                        <<unwrap(kind).s, unwrap(kind).s>>))
         ELSE error_opt(MsgKindNotString)
    ELSE None

\* variant: the tag is compared without regard to case
check_kind_ignore_case(target_kind, value) ==
    LET kind == Get(value, S_kind) IN
    IF is_some(kind)
    THEN IF unwrap(kind).k = "str"
         THEN IF to_ascii_lowercase(unwrap(kind).s) = to_ascii_lowercase(target_kind)
              THEN None
              ELSE Some(FromHaysonError(MsgKindMismatch,
                                        <<unwrap(kind).s, unwrap(kind).s>>))
         ELSE error_opt(MsgKindNotString)
    ELSE error_opt(MsgMissingKind)

check_kind(target_kind, value) ==
    LET kind == Get(value, S_kind) IN
    IF is_some(kind)
    THEN IF unwrap(kind).k = "str"
         THEN IF unwrap(kind).s = target_kind
              THEN None
              ELSE Some(FromHaysonError(MsgKindMismatch,
                                        <<unwrap(kind).s, unwrap(kind).s>>))
         ELSE error_opt(MsgKindNotString)
    ELSE error_opt(MsgMissingKind)

---------------------------------------------------------------------------
(* Number *)

Basic(f) == [nv |-> "Basic", f |-> f]
Exponent(f, e) == [nv |-> "Exponent", f |-> f, e |-> e]

\* #[derive(PartialEq)] of NumberValue and of Number
NumberValue_eq(a, b) ==
    /\ a.nv = b.nv
    /\ F64Eq(a.f, b.f)
    /\ a.nv = "Exponent" => a.e = b.e
Number_eq(a, b) == NumberValue_eq(a.value, b.value) /\ a.unit = b.unit

Number_new(value, unit) == [t |-> "Number", value |-> Basic(value), unit |-> unit]

Number_new_exponent(base, exponent, unit) ==
    [t |-> "Number", value |-> Exponent(base, exponent), unit |-> unit]

ParseNumberError(s) == [unparsable_number |-> s]

Number_from_encoded_json_string(json_string0) ==
    LET json_string == replacen(json_string0, <<"n", ":">>, << >>)
        sections == split(trim(json_string), " ")
        number_str == sections[1]
        unit == IF Len(sections) >= 2 THEN Some(trim(sections[2])) ELSE None
        sections2 == split(trim(number_str), "e")
        base_num == sections2[1]
        exp_num == IF Len(sections2) >= 2 THEN Some(sections2[2]) ELSE None
    IN
    IF is_some(exp_num)
    THEN LET base == parse_f64(base_num)
             exp == parse_i32(unwrap(exp_num))
         IN
         IF ~base.ok THEN Err(ParseNumberError(json_string))
         ELSE IF ~exp.ok THEN Err(ParseNumberError(json_string))
         ELSE Ok(Number_new_exponent(base.v, exp.v, unit))
    ELSE IF number_str = S_INF THEN Ok(Number_new(INFINITY, unit))
    ELSE IF number_str = S_NegINF THEN Ok(Number_new(NEG_INFINITY, unit))
    ELSE LET number == parse_f64(number_str) IN
         IF ~number.ok THEN Err(ParseNumberError(json_string))
         ELSE Ok(Number_new(number.v, unit))

\* impl Display for NumberValue
NumberValue_fmt(self) ==
    IF self.nv = "Basic" THEN fmt_f64(self.f)
    ELSE fmt_f64(self.f) \o <<"e">> \o fmt_i32(self.e)

\* variant: the unit of NaN and of the infinities is not written
Number_fmt_strips(self) ==
    IF is_some(self.unit) /\ is_finite(self.value.f)
    THEN NumberValue_fmt(self.value) \o <<" ">> \o unwrap(self.unit)
    ELSE NumberValue_fmt(self.value)

\* impl Display for Number
Number_fmt(self) ==
    IF is_some(self.unit)
    THEN NumberValue_fmt(self.value) \o <<" ">> \o unwrap(self.unit)
    ELSE NumberValue_fmt(self.value)

\* impl Hayson for Number.  hayson.rs matches on the two variants Basic and
\* Scientific of the Number; they are NumberValue::Basic and
\* NumberValue::Exponent of number.rs.
Number_to_hayson(self) ==
    IF self.value.nv = "Basic"
    THEN LET value == self.value.f IN
         IF is_nan(value)
         THEN JObj([key \in {S_kind, "val"} |->
                     IF key = S_kind THEN JStr(S_number) ELSE JStr(S_NaN)])
         ELSE IF is_infinite(value) /\ is_sign_positive(value)
         THEN JObj([key \in {S_kind, "val"} |->
                     IF key = S_kind THEN JStr(S_number) ELSE JStr(S_INF)])
         ELSE IF is_infinite(value) /\ is_sign_negative(value)
         THEN JObj([key \in {S_kind, "val"} |->
                     IF key = S_kind THEN JStr(S_number) ELSE JStr(S_NegINF)])
         ELSE JObj([key \in {S_kind, "val", "unit"} |->
                     CASE key = S_kind -> JStr(S_number)
                       [] key = "val" -> JsonOfF64(value)
                       [] key = "unit" -> JsonOfOptStr(self.unit)])
    ELSE LET sig == self.value.f
             exp == self.value.e
             value == F64Mul(sig, Powi10(exp))
         IN JObj([key \in {S_kind, "val", "unit"} |->
                     CASE key = S_kind -> JStr(S_number)
                       [] key = "val" -> JsonOfF64(value)
                       [] key = "unit" -> JsonOfOptStr(self.unit)])

\* variant: the NaN arm keeps the unit
Number_from_val_string_keeping(string, unit) ==
    IF string = S_INF THEN Ok(Number_new(INFINITY, unit))
    ELSE IF string = S_NegINF THEN Ok(Number_new(NEG_INFINITY, unit))
    ELSE IF string = S_NaN THEN Ok(Number_new(NAN, unit))
    ELSE error("Number val is a string but is not one of INF, -INF or NaN")

\* variant: the infinities drop the unit as NaN does
Number_from_val_string_dropping(string, unit) ==
    IF string = S_INF THEN Ok(Number_new(INFINITY, None))
    ELSE IF string = S_NegINF THEN Ok(Number_new(NEG_INFINITY, None))
    ELSE IF string = S_NaN THEN Ok(Number_new(NAN, None))
    ELSE error("Number val is a string but is not one of INF, -INF or NaN")

\* the arms of Number::from_hayson for a val that is a string
Number_from_val_string(string, unit) ==
    IF string = S_INF THEN Ok(Number_new(INFINITY, unit))
    ELSE IF string = S_NegINF THEN Ok(Number_new(NEG_INFINITY, unit))
    ELSE IF string = S_NaN THEN Ok(Number_new(NAN, None))
    ELSE error("Number val is a string but is not one of INF, -INF or NaN")

Number_from_hayson(value) ==
    IF value.k = "num"
    THEN Ok(Number_new(unwrap(as_f64(value)), None))
    ELSE IF value.k = "obj"
    THEN LET kind_err == check_kind(S_number, value)
             val == Get(value, "val")
             unit0 == Get(value, "unit")
             unit1 == IF is_some(unit0) /\ is_null(unwrap(unit0)) THEN None ELSE unit0
         IN
         IF is_some(kind_err) THEN Err(unwrap(kind_err))
         ELSE IF is_none(val) THEN error("Number val is missing")
         ELSE IF is_some(unit1) /\ is_none(as_str(unwrap(unit1)))
              THEN error("Number unit is not a string")
         ELSE LET unit == IF is_some(unit1) THEN Some(unwrap(as_str(unwrap(unit1))))
                          ELSE None
                  v == unwrap(val)
              IN
              IF v.k = "str"
              THEN Number_from_val_string(v.s, unit)
              ELSE IF v.k = "num"
              THEN Ok(Number_new(unwrap(as_f64(v)), unit))
              ELSE error("Number val must be either a number or a string")
    ELSE error("Ref JSON value must be an object")

---------------------------------------------------------------------------
(* Ref *)

Ref(s) == [t |-> "Ref", s |-> s]
ParseRefError(s) == [unparsable_ref |-> s]

\* variant: the tilde is left out
is_valid_symbol_char_no_tilde(c) == c = "_" \/ c = ":" \/ c = "-" \/ c = "."
is_valid_symbol_char(c) == c = "_" \/ c = ":" \/ c = "-" \/ c = "." \/ c = "~"

is_valid_ref_char(c) == is_alphanumeric(c) \/ is_valid_symbol_char(c)

RECURSIVE ref_chars_loop(_, _, _)
\* the for loop of is_valid_ref over s.chars().enumerate(), from the (0-based)
\* index on: its final <<is_valid_ref, last_index_seen>>
ref_chars_loop(s, index, last_index_seen) ==
    IF index >= Len(s) THEN <<TRUE, last_index_seen>>
    ELSE LET c == s[index + 1] IN
         IF index = 0
         THEN IF c # "@" THEN <<FALSE, last_index_seen>>
              ELSE ref_chars_loop(s, index + 1, last_index_seen)
         ELSE IF ~is_valid_ref_char(c) THEN <<FALSE, index>>
              ELSE ref_chars_loop(s, index + 1, index)

Ref_is_valid_ref(s) ==
    IF s = << >> THEN FALSE
    ELSE LET loop == ref_chars_loop(s, 0, 0)
             is_valid_ref == loop[1]
             last_index_seen == loop[2]
         IN IF last_index_seen = 0 THEN FALSE ELSE is_valid_ref

\* variant: Ref::new is stricter than is_valid_ref, ids of two characters fail
Ref_new_long_ids(s) ==
    IF Ref_is_valid_ref(s) /\ Len(s) > 3 THEN Ok(Ref(s)) ELSE Err(ParseRefError(s))

Ref_new(s) == IF Ref_is_valid_ref(s) THEN Ok(Ref(s)) ELSE Err(ParseRefError(s))

Ref_from_str(s) == IF Ref_is_valid_ref(s) THEN Ok(Ref(s)) ELSE Err(ParseRefError(s))

Ref_from_hayson(value) ==
    IF value.k = "obj"
    THEN LET kind_err == check_kind(S_ref, value)
             val == Get(value, "val")
         IN
         IF is_some(kind_err) THEN Err(unwrap(kind_err))
         ELSE IF is_none(val) THEN error("Ref val is missing")
         ELSE IF is_none(as_str(unwrap(val))) THEN error("Ref val is not a string")
         ELSE LET ref_str == <<"@">> \o unwrap(as_str(unwrap(val))) IN
              IF ~Ref_is_valid_ref(ref_str)
              THEN Err(FromHaysonError("Ref val is not valid: {}", <<ref_str>>))
              ELSE LET r == Ref_new(ref_str) IN IF r.ok THEN Ok(r.v) ELSE Panic
    ELSE error("Ref JSON value must be an object")

\* Ref::to_axon_code: the string of the Ref
Ref_to_axon_code(self) == self.s

\* variant: the `@` is kept in val
Ref_to_hayson_keeps_at(self) ==
    JObj([key \in {S_kind, "val"} |->
            IF key = S_kind THEN JStr(S_ref) ELSE JStr(Ref_to_axon_code(self))])

Ref_to_hayson(self) ==
    JObj([key \in {S_kind, "val"} |->
            IF key = S_kind THEN JStr(S_ref)
            ELSE JStr(replacen(Ref_to_axon_code(self), <<"@">>, << >>))])

Ref_from_encoded_json_string(json_string) ==
    LET raw_id == split(json_string, " ")[1] IN
    Ref_new(replacen(raw_id, <<"r", ":">>, <<"@">>))

Ref_to_encoded_json_string(self) == replacen(self.s, <<"@">>, <<"r", ":">>)

---------------------------------------------------------------------------
(* Symbol *)

Symbol(s) == [t |-> "Symbol", s |-> s]
ParseSymbolError(s) == [unparsable_symbol |-> s]

\* [a-zA-Z0-9_]
re_word(c) == is_alphanumeric(c) \/ c = "_"

RECURSIVE re_groups(_)
\* s is (-[a-z][a-zA-Z0-9_])* exactly
re_groups(s) ==
    \/ s = << >>
    \/ /\ Len(s) >= 3
       /\ s[1] = "-"
       /\ s[2] \in AsciiLower
       /\ re_word(s[3])
       /\ re_groups(Tail_from(s, 4))

\* s is [a-z][a-zA-Z0-9_]*(-[a-z][a-zA-Z0-9_])* exactly
re_matches_all(s) ==
    /\ Len(s) >= 1
    /\ s[1] \in AsciiLower
    /\ \E n \in 1 .. Len(s) :
          /\ \A i \in 2 .. n : re_word(s[i])
          /\ re_groups(Tail_from(s, n + 1))

\* the pattern taken as anchored at both ends of the section
re_is_match_anchored(s) == re_matches_all(s)

\* Regex::is_match: the pattern is not anchored, so it matches when some
\* substring of s is in its language
re_is_match(s) ==
    \E i \in 1 .. Len(s) : \E j \in i .. Len(s) : re_matches_all(SubSeq(s, i, j))

Symbol_is_valid_symbol(s) ==
    IF ~(Len(s) >= 1 /\ s[1] = "^") THEN FALSE
    ELSE LET sections == split(Tail_from(s, 2), ":") IN
         IF Len(sections) > 2 THEN FALSE
         ELSE IF ~re_is_match(sections[1]) THEN FALSE
         ELSE IF Len(sections) >= 2 /\ ~re_is_match(sections[2]) THEN FALSE
         ELSE TRUE

Symbol_new(s) ==
    IF Symbol_is_valid_symbol(s) THEN Ok(Symbol(s)) ELSE Err(ParseSymbolError(s))

Symbol_from_str(s) ==
    IF Symbol_is_valid_symbol(s) THEN Ok(Symbol(s)) ELSE Err(ParseSymbolError(s))

Symbol_from_hayson(value) ==
    IF value.k = "obj"
    THEN LET kind_err == check_kind(S_symbol, value)
             val == Get(value, "val")
         IN
         IF is_some(kind_err) THEN Err(unwrap(kind_err))
         ELSE IF is_none(val) THEN error("Symbol val is missing")
         ELSE IF is_none(as_str(unwrap(val))) THEN error("Symbol val is not a string")
         ELSE LET symbol_str == <<"^">> \o unwrap(as_str(unwrap(val))) IN
              IF ~Symbol_is_valid_symbol(symbol_str)
              THEN Err(FromHaysonError("Symbol val is not valid: {}", <<symbol_str>>))
              ELSE LET r == Symbol_new(symbol_str) IN IF r.ok THEN Ok(r.v) ELSE Panic
    ELSE error("Symbol JSON value must be an object")

\* Symbol::to_axon_code: the string of the Symbol
Symbol_to_axon_code(self) == self.s

Symbol_to_hayson(self) ==
    JObj([key \in {S_kind, "val"} |->
            IF key = S_kind THEN JStr(S_symbol)
            ELSE JStr(replacen(Symbol_to_axon_code(self), <<"^">>, << >>))])

Symbol_from_encoded_json_string(json_string) ==
    Symbol_new(replacen(json_string, <<"y", ":">>, <<"^">>))

\* variant: the prefix written is `s:`
Symbol_to_encoded_json_string_s(self) == replacen(self.s, <<"^">>, <<"s", ":">>)

Symbol_to_encoded_json_string(self) == replacen(self.s, <<"^">>, <<"y", ":">>)

---------------------------------------------------------------------------
(* Coord, Marker, RemoveMarker, Na, Uri, Xstr *)

Coord_new(lat, lng) == [t |-> "Coord", lat |-> lat, lng |-> lng]
Marker_new == [t |-> "Marker"]
RemoveMarker_new == [t |-> "RemoveMarker"]
Na_new == [t |-> "Na"]
Uri_new(s) == [t |-> "Uri", s |-> s]
Xstr_new(type_name, value) == [t |-> "Xstr", type_name |-> type_name, value |-> value]

Coord_from_hayson(value) ==
    IF value.k = "obj"
    THEN LET kind_err == check_kind(S_coord, value)
             lat == Get(value, "lat")
             lng == Get(value, "lng")
         IN
         IF is_some(kind_err) THEN Err(unwrap(kind_err))
         ELSE IF is_none(lat) THEN error("Coord lat is missing")
         ELSE IF is_none(lng) THEN error("Coord lng is missing")
         ELSE IF is_none(as_f64(unwrap(lat))) THEN error("Coord lat is not a f64")
         ELSE IF is_none(as_f64(unwrap(lng))) THEN error("Coord lng is not a f64")
         ELSE Ok(Coord_new(unwrap(as_f64(unwrap(lat))), unwrap(as_f64(unwrap(lng)))))
    ELSE error("Coord JSON value must be an object")

Marker_from_hayson(value) ==
    IF value.k = "obj"
    THEN LET kind_err == check_kind(S_marker, value) IN
         IF is_some(kind_err) THEN Err(unwrap(kind_err)) ELSE Ok(Marker_new)
    ELSE error("Marker JSON value must be an object")

RemoveMarker_from_hayson(value) ==
    IF value.k = "obj"
    THEN LET kind_err == check_kind(S_remove, value) IN
         IF is_some(kind_err) THEN Err(unwrap(kind_err)) ELSE Ok(RemoveMarker_new)
    ELSE error("RemoveMarker JSON value must be an object")

Na_from_hayson(value) ==
    IF value.k = "obj"
    THEN LET kind_err == check_kind(S_na, value) IN
         IF is_some(kind_err) THEN Err(unwrap(kind_err)) ELSE Ok(Na_new)
    ELSE error("NA JSON value must be an object")

Uri_from_hayson(value) ==
    IF value.k = "obj"
    THEN LET kind_err == check_kind(S_uri, value)
             val == Get(value, "val")
         IN
         IF is_some(kind_err) THEN Err(unwrap(kind_err))
         ELSE IF is_none(val) THEN error("Uri val is missing")
         ELSE IF is_none(as_str(unwrap(val))) THEN error("Uri val is not a string")
         ELSE Ok(Uri_new(unwrap(as_str(unwrap(val)))))
    ELSE error("Uri JSON value must be an object")

Xstr_from_hayson(value) ==
    IF value.k = "obj"
    THEN LET kind_err == check_kind(S_xstr, value)
             val == Get(value, "val")
             type_name == Get(value, "type")
         IN
         IF is_some(kind_err) THEN Err(unwrap(kind_err))
         ELSE IF is_none(val) THEN error("Xstr val is missing")
         ELSE IF is_none(as_str(unwrap(val))) THEN error("Xstr val is not a string")
         ELSE IF is_none(type_name) THEN error("Xstr type is missing")
         ELSE IF is_none(as_str(unwrap(type_name)))
              THEN error("Xstr type is not a string")
         ELSE Ok(Xstr_new(unwrap(as_str(unwrap(type_name))), unwrap(as_str(unwrap(val)))))
    ELSE error("Xstr JSON value must be an object")

Coord_to_hayson(self) ==
    JObj([key \in {S_kind, "lat", "lng"} |->
            CASE key = S_kind -> JStr(S_coord)
              [] key = "lat" -> JsonOfF64(self.lat)
              [] key = "lng" -> JsonOfF64(self.lng)])

Marker_to_hayson(self) == JObj([key \in {S_kind} |-> JStr(S_marker)])

RemoveMarker_to_hayson(self) == JObj([key \in {S_kind} |-> JStr(S_remove)])

Na_to_hayson(self) == JObj([key \in {S_kind} |-> JStr(S_na)])

Uri_to_hayson(self) ==
    JObj([key \in {S_kind, "val"} |->
            IF key = S_kind THEN JStr(S_uri) ELSE JStr(self.s)])

\* variant: type and val are swapped
Xstr_to_hayson_swapped(self) ==
    JObj([key \in {S_kind, "type", "val"} |->
            CASE key = S_kind -> JStr(S_xstr)
              [] key = "type" -> JStr(self.value)
              [] key = "val" -> JStr(self.type_name)])

Xstr_to_hayson(self) ==
    JObj([key \in {S_kind, "type", "val"} |->
            CASE key = S_kind -> JStr(S_xstr)
              [] key = "type" -> JStr(self.type_name)
              [] key = "val" -> JStr(self.value)])

---------------------------------------------------------------------------
(* The caller *)

NoValue == [t |-> "none"]
\* a bool, as the caller records it
Bool(b) == [bool |-> b]
Units == {None, Some(<<"m", "/", "s">>), Some(<<"k", "g">>)}

\* the JSON values a caller may hand to a decoder: the values that are not
\* objects, and objects whose fields are each absent (None) or one of a few values
KindOpts ==
    {None, Some(JNull), Some(JNum(Fin(1, 0))), Some(JStr(<<"N", "u", "m", "b", "e", "r">>))}
        \cup {Some(JStr(tag)) : tag \in {S_coord, S_ref, S_number, S_symbol, S_marker,
                                        S_remove, S_na, S_uri, S_xstr}}
ValOpts ==
    {None, Some(JNull), Some(JBool(TRUE)), Some(JArr), Some(JNum(Fin(1, 0))),
     Some(JNum(Fin(-2, 1))), Some(JStr(S_INF)), Some(JStr(S_NegINF)), Some(JStr(S_NaN)),
     Some(JStr(<<"a", "b">>)), Some(JStr(<<"A", "/">>)), Some(JStr(<< >>))}
UnitOpts == {None, Some(JNull), Some(JStr(<<"m", "/", "s">>)), Some(JNum(Fin(1, 0)))}
LatLngOpts == {None, Some(JNull), Some(JNum(Fin(2, 1))), Some(JStr(<<"1">>))}
TypeOpts == {None, Some(JNum(Fin(1, 0))), Some(JStr(<<"C", "o", "l", "o", "r">>))}

\* the object with the fields that are present
MkObject(fields) ==
    JObj([key \in {f \in DOMAIN fields : is_some(fields[f])} |-> unwrap(fields[key])])

JsonObjects ==
    {MkObject([_kind |-> kd, val |-> v, unit |-> u]) :
        kd \in KindOpts, v \in ValOpts, u \in UnitOpts}
    \cup {MkObject([_kind |-> kd, lat |-> lat, lng |-> lng]) :
        kd \in KindOpts, lat \in LatLngOpts, lng \in LatLngOpts}
    \cup {MkObject([_kind |-> kd, val |-> v, type |-> ty]) :
        kd \in KindOpts, v \in ValOpts, ty \in TypeOpts}

JsonInputs ==
    {JNull, JBool(FALSE), JNum(Fin(1, 0)), JStr(S_NaN), JArr} \cup JsonObjects

\* the JSON value a decoder is called with: the encoding in hand, or, at the
\* start, any supplied value
DecoderInputs ==
    IF src = "encoded" THEN {json} ELSE IF call = "init" THEN JsonInputs ELSE {}

Init ==
    /\ call = "init"
    /\ arg = NoValue
    /\ ret = NoValue
    /\ held = NoValue
    /\ json = JNull
    /\ src = "none"

\* a constructor, parser or validator is called (each at the start, guarded by
\* call = "init" in its action): nothing is encoded yet
Called(name, input, output) ==
    /\ call' = name
    /\ arg' = input
    /\ ret' = output
    /\ json' = JNull
    /\ src' = "none"

\* T::from_hayson is called on the JSON value j
Decoded(name, j, output) ==
    /\ call' = name
    /\ arg' = j
    /\ ret' = output
    /\ json' = j
    /\ src' = IF src = "encoded" THEN "encoded" ELSE "supplied"
    /\ UNCHANGED held

NumberNew ==
    /\ call = "init"
    /\ \E value \in F64, unit \in Units :
           /\ Called("Number::new", [value |-> value, unit |-> unit],
                     Number_new(value, unit))
           /\ held' = ret'

NumberNewExponent ==
    /\ call = "init"
    /\ \E base \in F64, exponent \in I32, unit \in Units :
           /\ Called("Number::new_exponent",
                     [base |-> base, exponent |-> exponent, unit |-> unit],
                     Number_new_exponent(base, exponent, unit))
           /\ held' = ret'

NumberToHayson ==
    /\ held.t = "Number"
    /\ src = "none"
    /\ call' = "Number::to_hayson"
    /\ arg' = held
    /\ ret' = Number_to_hayson(held)
    /\ json' = ret'
    /\ src' = "encoded"
    /\ UNCHANGED held

\* T::to_hayson is called on the value in hand
Encoded(name, output) ==
    /\ src = "none"
    /\ call' = name
    /\ arg' = held
    /\ ret' = output
    /\ json' = output
    /\ src' = "encoded"
    /\ UNCHANGED held

\* T::to_encoded_json_string is called on the value in hand
EncodedString(name, output) ==
    /\ src = "none"
    /\ call' = name
    /\ arg' = held
    /\ ret' = [s |-> output]
    /\ json' = JStr(output)
    /\ src' = "encoded_string"
    /\ UNCHANGED held

\* the string a parser of an encoded form is called with: the encoded string in
\* hand, or, at the start, any supplied string
ParserInputs(supplied) ==
    IF src = "encoded_string" THEN {json.s} ELSE IF call = "init" THEN supplied ELSE {}

\* T::from_encoded_json_string is called on the string s
Parsed(name, s, output) ==
    /\ call' = name
    /\ arg' = [s |-> s]
    /\ ret' = output
    /\ json' = JStr(s)
    /\ src' = IF src = "encoded_string" THEN "encoded_string" ELSE "supplied"
    /\ UNCHANGED held

Floats == {Fin(1, 0), Fin(-2, 1), Fin(2, -2), Fin(0, 0), NAN, INFINITY}
UriInputs == {<< >>, <<"h", ":", "/">>, <<"a", " ", "b">>}
XstrTypeNames == {<< >>, <<"C", "o", "l", "o", "r">>}
XstrValues == {<< >>, <<"r", "e", "d">>, <<"C", "o", "l", "o", "r">>}

CoordNew ==
    /\ call = "init"
    /\ \E lat \in Floats, lng \in Floats :
           /\ Called("Coord::new", [lat |-> lat, lng |-> lng], Coord_new(lat, lng))
           /\ held' = ret'

MarkerNew ==
    /\ call = "init"
    /\ Called("Marker::new", NoValue, Marker_new)
    /\ held' = ret'

RemoveMarkerNew ==
    /\ call = "init"
    /\ Called("RemoveMarker::new", NoValue, RemoveMarker_new)
    /\ held' = ret'

NaNew ==
    /\ call = "init"
    /\ Called("Na::new", NoValue, Na_new)
    /\ held' = ret'

UriNew ==
    /\ call = "init"
    /\ \E s \in UriInputs :
           /\ Called("Uri::new", [s |-> s], Uri_new(s))
           /\ held' = ret'

XstrNew ==
    /\ call = "init"
    /\ \E type_name \in XstrTypeNames, value \in XstrValues :
           /\ Called("Xstr::new", [type_name |-> type_name, value |-> value],
                     Xstr_new(type_name, value))
           /\ held' = ret'

CoordToHayson == held.t = "Coord" /\ Encoded("Coord::to_hayson", Coord_to_hayson(held))

RefToHayson == held.t = "Ref" /\ Encoded("Ref::to_hayson", Ref_to_hayson(held))

SymbolToHayson ==
    held.t = "Symbol" /\ Encoded("Symbol::to_hayson", Symbol_to_hayson(held))

MarkerToHayson ==
    held.t = "Marker" /\ Encoded("Marker::to_hayson", Marker_to_hayson(held))

RemoveMarkerToHayson ==
    /\ held.t = "RemoveMarker"
    /\ Encoded("RemoveMarker::to_hayson", RemoveMarker_to_hayson(held))

NaToHayson == held.t = "Na" /\ Encoded("Na::to_hayson", Na_to_hayson(held))

UriToHayson == held.t = "Uri" /\ Encoded("Uri::to_hayson", Uri_to_hayson(held))

XstrToHayson == held.t = "Xstr" /\ Encoded("Xstr::to_hayson", Xstr_to_hayson(held))

\* format!("{}", number)
NumberDisplay ==
    /\ held.t = "Number"
    /\ src = "none"
    /\ call' = "Number::fmt"
    /\ arg' = held
    /\ ret' = [s |-> Number_fmt(held)]
    /\ UNCHANGED <<held, json, src>>

Tags == {S_coord, S_ref, S_number, S_symbol, S_marker, S_remove, S_na, S_uri, S_xstr}

\* the tag check on its own; the Option it returns is recorded as [opt |-> _]
CheckKind ==
    /\ call = "init"
    /\ \E target_kind \in Tags, value \in JsonInputs :
           /\ Called("check_kind", [target_kind |-> target_kind, value |-> value],
                     [opt |-> check_kind(target_kind, value)])
           /\ UNCHANGED held

\* the Number a decoder returned for a supplied JSON value is encoded again;
\* json keeps the supplied value
NumberReencode ==
    /\ call = "Number::from_hayson"
    /\ src = "supplied"
    /\ "ok" \in DOMAIN ret
    /\ ret.ok
    /\ call' = "Number::to_hayson"
    /\ arg' = ret.v
    /\ ret' = Number_to_hayson(ret.v)
    /\ held' = ret.v
    /\ src' = "reencoded"
    /\ UNCHANGED json

NumberFromHayson ==
    \E j \in DecoderInputs : Decoded("Number::from_hayson", j, Number_from_hayson(j))

CoordFromHayson ==
    \E j \in DecoderInputs : Decoded("Coord::from_hayson", j, Coord_from_hayson(j))

RefFromHayson ==
    \E j \in DecoderInputs : Decoded("Ref::from_hayson", j, Ref_from_hayson(j))

SymbolFromHayson ==
    \E j \in DecoderInputs : Decoded("Symbol::from_hayson", j, Symbol_from_hayson(j))

MarkerFromHayson ==
    \E j \in DecoderInputs : Decoded("Marker::from_hayson", j, Marker_from_hayson(j))

RemoveMarkerFromHayson ==
    \E j \in DecoderInputs :
        Decoded("RemoveMarker::from_hayson", j, RemoveMarker_from_hayson(j))

NaFromHayson ==
    \E j \in DecoderInputs : Decoded("Na::from_hayson", j, Na_from_hayson(j))

UriFromHayson ==
    \E j \in DecoderInputs : Decoded("Uri::from_hayson", j, Uri_from_hayson(j))

XstrFromHayson ==
    \E j \in DecoderInputs : Decoded("Xstr::from_hayson", j, Xstr_from_hayson(j))

\* the strings handed to the Ref and the Symbol validators
RefAlphabet == {"@", "r", "Z", "7", "_", ":", "-", ".", "~", "/", ",", "|"}
RefInputs == StringsUpTo(RefAlphabet, MaxRefLen)
SymbolAlphabet == {"^", "a", "A", "1", "_", "-", ":"}
SymbolInputs == StringsUpTo(SymbolAlphabet, MaxSymbolLen)
\* the strings handed to Ref:: and Symbol::from_encoded_json_string
EncodedAlphabet == {"r", "y", ":", "@", "^", " ", "a"}
EncodedInputs == StringsUpTo(EncodedAlphabet, MaxEncodedLen)

\* the strings handed to Number::from_encoded_json_string: a prefix, a
\* magnitude, an exponent part, a unit part
NumberPrefixes ==
    {<<"n", ":">>, << >>, <<" ", "n", ":">>, <<"1", "n", ":">>, <<"n", ":", "n", ":">>}
NumberMagnitudes ==
    {<<"1">>, <<"-", "2">>, <<"1", ".", "5">>, <<".", "5">>, <<"+", "2", "0">>,
     S_INF, S_NegINF, S_NaN, <<"-">> \o S_NaN, <<"+">> \o S_NaN,
     <<"i", "n", "f">>, <<"+">> \o S_INF, <<"1", "E", "1">>, <<"x">>, <<"-">>, << >>}
NumberExponents ==
    {<< >>, <<"e", "2">>, <<"e", "+", "2">>, <<"e", "-", "1">>, <<"e", "0", "5">>,
     <<"e">>, <<"e", "1", ".", "5">>, <<"e", "2", "e", "3">>,
     <<"e", "9", "9", "9", "9", "9", "9", "9", "9", "9", "9">>}
NumberUnits ==
    {<< >>, <<" ", "m">>, <<" ", "k", "g", " ">>, <<" ", "m", " ", "x">>,
     <<" ", " ", "m">>}
NumberEncodedInputs ==
    {pre \o mag \o exp \o unit :
        pre \in NumberPrefixes, mag \in NumberMagnitudes,
        exp \in NumberExponents, unit \in NumberUnits}

NumberFromEncodedJsonString ==
    \E s \in ParserInputs(NumberEncodedInputs) :
        Parsed("Number::from_encoded_json_string", s,
               Number_from_encoded_json_string(s))

RefToEncodedJsonString ==
    /\ held.t = "Ref"
    /\ EncodedString("Ref::to_encoded_json_string", Ref_to_encoded_json_string(held))

RefFromEncodedJsonString ==
    \E s \in ParserInputs(EncodedInputs) :
        Parsed("Ref::from_encoded_json_string", s, Ref_from_encoded_json_string(s))

SymbolToEncodedJsonString ==
    /\ held.t = "Symbol"
    /\ EncodedString("Symbol::to_encoded_json_string",
                     Symbol_to_encoded_json_string(held))

SymbolFromEncodedJsonString ==
    \E s \in ParserInputs(EncodedInputs) :
        Parsed("Symbol::from_encoded_json_string", s,
               Symbol_from_encoded_json_string(s))

RefIsValidRef ==
    /\ call = "init"
    /\ \E s \in RefInputs :
           /\ Called("Ref::is_valid_ref", [s |-> s], Bool(Ref_is_valid_ref(s)))
           /\ UNCHANGED held

RefNew ==
    /\ call = "init"
    /\ \E s \in RefInputs :
           /\ Called("Ref::new", [s |-> s], Ref_new(s))
           /\ held' = IF ret'.ok THEN ret'.v ELSE NoValue

RefFromStr ==
    /\ call = "init"
    /\ \E s \in RefInputs :
           /\ Called("Ref::from_str", [s |-> s], Ref_from_str(s))
           /\ held' = IF ret'.ok THEN ret'.v ELSE NoValue

SymbolIsValidSymbol ==
    /\ call = "init"
    /\ \E s \in SymbolInputs :
           /\ Called("Symbol::is_valid_symbol", [s |-> s],
                     Bool(Symbol_is_valid_symbol(s)))
           /\ UNCHANGED held

SymbolNew ==
    /\ call = "init"
    /\ \E s \in SymbolInputs :
           /\ Called("Symbol::new", [s |-> s], Symbol_new(s))
           /\ held' = IF ret'.ok THEN ret'.v ELSE NoValue

SymbolFromStr ==
    /\ call = "init"
    /\ \E s \in SymbolInputs :
           /\ Called("Symbol::from_str", [s |-> s], Symbol_from_str(s))
           /\ held' = IF ret'.ok THEN ret'.v ELSE NoValue

Next ==
    \/ CoordNew
    \/ MarkerNew
    \/ RemoveMarkerNew
    \/ NaNew
    \/ UriNew
    \/ XstrNew
    \/ CoordToHayson
    \/ RefToHayson
    \/ SymbolToHayson
    \/ MarkerToHayson
    \/ RemoveMarkerToHayson
    \/ NaToHayson
    \/ UriToHayson
    \/ XstrToHayson
    \/ NumberFromEncodedJsonString
    \/ NumberDisplay
    \/ NumberReencode
    \/ CheckKind
    \/ RefToEncodedJsonString
    \/ RefFromEncodedJsonString
    \/ SymbolToEncodedJsonString
    \/ SymbolFromEncodedJsonString
    \/ NumberNew
    \/ NumberNewExponent
    \/ NumberToHayson
    \/ NumberFromHayson
    \/ CoordFromHayson
    \/ RefFromHayson
    \/ SymbolFromHayson
    \/ MarkerFromHayson
    \/ RemoveMarkerFromHayson
    \/ NaFromHayson
    \/ UriFromHayson
    \/ XstrFromHayson
    \/ RefIsValidRef
    \/ RefNew
    \/ RefFromStr
    \/ SymbolIsValidSymbol
    \/ SymbolNew
    \/ SymbolFromStr

Spec == Init /\ [][Next]_vars

---------------------------------------------------------------------------
(* Properties *)

IsOk(r) == "ok" \in DOMAIN r /\ r.ok
IsErr(r) == "ok" \in DOMAIN r /\ ~r.ok
IsNumber(r) == "t" \in DOMAIN r /\ r.t = "Number"

\* a decoder has just decoded the encoding of the Number the caller holds
NumberRoundTrip ==
    /\ call = "Number::from_hayson"
    /\ src = "encoded"
    /\ held.t = "Number"

\* C1: a plain Number with a finite magnitude, with or without a unit, decodes
\* from its own encoding to an equal Number: same magnitude, same unit.
C1_FinitePlainRoundTrip ==
    (NumberRoundTrip /\ held.value.nv = "Basic" /\ is_finite(held.value.f))
        => /\ IsOk(ret)
           /\ Number_eq(ret.v, held)
           /\ ret.v.value = Basic(held.value.f)
           /\ ret.v.unit = held.unit

C1_Witness ==
    /\ NumberRoundTrip
    /\ held = Number_new(Fin(-2, 1), Some(<<"m", "/", "s">>))
    /\ IsOk(ret)
    /\ ret.v.unit = Some(<<"m", "/", "s">>)

\* C2: a plain Number whose magnitude is NaN, +Infinity or -Infinity decodes
\* from its own encoding to a Number with the same kind of magnitude and no
\* unit, whatever unit it had.
C2_SpecialRoundTripStripsUnit ==
    (NumberRoundTrip /\ held.value.nv = "Basic" /\ ~is_finite(held.value.f))
        => /\ IsOk(ret)
           /\ ret.v.value.nv = "Basic"
           /\ is_nan(held.value.f) => is_nan(ret.v.value.f)
           /\ (is_infinite(held.value.f) /\ held.value.f.m > 0)
                 => (is_infinite(ret.v.value.f) /\ ret.v.value.f.m > 0)
           /\ (is_infinite(held.value.f) /\ held.value.f.m < 0)
                 => (is_infinite(ret.v.value.f) /\ ret.v.value.f.m < 0)
           /\ ret.v.unit = None

C2_Witness ==
    /\ NumberRoundTrip
    /\ held = Number_new(NEG_INFINITY, Some(<<"m", "/", "s">>))
    /\ IsOk(ret)
    /\ ret.v.unit = None

\* C3: the encoding of a plain Number is an object; for NaN, +Infinity and
\* -Infinity it has exactly the keys _kind = "number" and val = "NaN", "INF",
\* "-INF" and no unit key, whatever the unit; for a finite magnitude it has
\* _kind, a numeric val and a unit that is the unit string or null.
C3_EncodingShape ==
    (call = "Number::to_hayson" /\ arg.value.nv = "Basic")
        => /\ ret.k = "obj"
           /\ ret.o["_kind"] = JStr(<<"n", "u", "m", "b", "e", "r">>)
           /\ is_nan(arg.value.f)
                 => /\ DOMAIN ret.o = {"_kind", "val"}
                    /\ ret.o["val"] = JStr(<<"N", "a", "N">>)
           /\ arg.value.f = INFINITY
                 => /\ DOMAIN ret.o = {"_kind", "val"}
                    /\ ret.o["val"] = JStr(<<"I", "N", "F">>)
           /\ arg.value.f = NEG_INFINITY
                 => /\ DOMAIN ret.o = {"_kind", "val"}
                    /\ ret.o["val"] = JStr(<<"-", "I", "N", "F">>)
           /\ is_finite(arg.value.f)
                 => /\ DOMAIN ret.o = {"_kind", "val", "unit"}
                    /\ ret.o["val"] = [k |-> "num", f |-> arg.value.f]
                    /\ ret.o["unit"] = IF arg.unit = << >> THEN [k |-> "null"]
                                       ELSE [k |-> "str", s |-> arg.unit[1]]

C3_Witness ==
    /\ call = "Number::to_hayson"
    /\ arg = Number_new(NEG_INFINITY, Some(<<"k", "g">>))
    /\ DOMAIN ret.o = {"_kind", "val"}

\* C4 (as claimed): a scientific Number with a finite significand s, any
\* exponent e and any unit u decodes from its own encoding to a plain Number of
\* value s * 10^e and unit u.
C4_ScientificRoundTrip ==
    (NumberRoundTrip /\ held.value.nv = "Exponent" /\ is_finite(held.value.f))
        => /\ IsOk(ret)
           /\ ret.v.value.nv = "Basic"
           /\ F64Eq(ret.v.value.f, F64Mul(held.value.f, Powi10(held.value.e)))
           /\ ret.v.unit = held.unit

\* the `_kind` every decoder asks for
DecoderTag ==
    [c \in {"Coord::from_hayson", "Ref::from_hayson", "Number::from_hayson",
            "Symbol::from_hayson", "Marker::from_hayson", "RemoveMarker::from_hayson",
            "Na::from_hayson", "Uri::from_hayson", "Xstr::from_hayson"} |->
        CASE c = "Coord::from_hayson" -> <<"c", "o", "o", "r", "d">>
          [] c = "Ref::from_hayson" -> <<"r", "e", "f">>
          [] c = "Number::from_hayson" -> <<"n", "u", "m", "b", "e", "r">>
          [] c = "Symbol::from_hayson" -> <<"s", "y", "m", "b", "o", "l">>
          [] c = "Marker::from_hayson" -> <<"m", "a", "r", "k", "e", "r">>
          [] c = "RemoveMarker::from_hayson" -> <<"r", "e", "m", "o", "v", "e">>
          [] c = "Na::from_hayson" -> <<"n", "a">>
          [] c = "Uri::from_hayson" -> <<"u", "r", "i">>
          [] c = "Xstr::from_hayson" -> <<"x", "s", "t", "r">>]

TagClassMessages ==
    {"Missing '_kind' key", "'_kind' key is not a string",
     "Expected '_kind' = {} but found {}"}

\* the object j carries the tag: a `_kind` that is the string tag
HasTag(j, tag) ==
    /\ "_kind" \in DOMAIN j.o
    /\ j.o["_kind"].k = "str"
    /\ j.o["_kind"].s = tag

\* C5: every decoder, on every object whose _kind is absent, not a string or
\* another string than its tag, returns a tag-class error, whatever the other
\* fields are.
C5_TagErrorFirst ==
    (call \in DOMAIN DecoderTag /\ arg.k = "obj" /\ ~HasTag(arg, DecoderTag[call]))
        => /\ IsErr(ret)
           /\ ret.e.fmt \in TagClassMessages

C5_Witness ==
    /\ call = "Coord::from_hayson"
    /\ arg.k = "obj"
    /\ DOMAIN arg.o = {"_kind"}
    /\ arg.o["_kind"] = JStr(<<"r", "e", "f">>)
    /\ IsErr(ret)
    /\ ret.e.fmt = "Expected '_kind' = {} but found {}"

\* the object j is tagged "number" and its val is the string "NaN"
TaggedNaN(j) ==
    /\ j.k = "obj"
    /\ HasTag(j, <<"n", "u", "m", "b", "e", "r">>)
    /\ "val" \in DOMAIN j.o
    /\ j.o["val"] = JStr(<<"N", "a", "N">>)

\* C6: Number::from_hayson of {_kind: "number", val: "NaN"}, without a unit or
\* with a unit string, is Ok of a NaN Number without unit.
C6_NaNDropsUnit ==
    (/\ call = "Number::from_hayson"
     /\ TaggedNaN(arg)
     /\ "unit" \in DOMAIN arg.o => arg.o["unit"].k = "str")
        => /\ IsOk(ret)
           /\ ret.v.value.nv = "Basic"
           /\ is_nan(ret.v.value.f)
           /\ ret.v.unit = None

C6_Witness ==
    /\ call = "Number::from_hayson"
    /\ src = "supplied"
    /\ TaggedNaN(arg)
    /\ "unit" \in DOMAIN arg.o
    /\ arg.o["unit"] = JStr(<<"m", "/", "s">>)
    /\ IsOk(ret)
    /\ ret.v.unit = None

\* C7 (as claimed): the scientific constructor returns nothing exactly when the
\* significand is NaN or infinite, and a Number for every finite significand.
C7_ScientificConstructorValidates ==
    call = "Number::new_exponent" => (IsNumber(ret) <=> is_finite(arg.base))

\* a Number the call returned, directly or as Ok
ReturnedNumbers ==
    IF IsNumber(ret) THEN {ret}
    ELSE IF IsOk(ret) /\ IsNumber(ret.v) THEN {ret.v}
    ELSE {}

\* C8 (as claimed): every Number obtained with a scientific magnitude has a
\* finite significand.
C8_SignificandFinite ==
    \A n \in ReturnedNumbers : n.value.nv = "Exponent" => is_finite(n.value.f)

RefGrammarChars ==
    AsciiLower \cup AsciiUpper \cup AsciiDigit \cup {"_", ":", "-", ".", "~"}

\* `@` followed by at least one character, all of them grammar characters
RefGrammar(s) ==
    /\ Len(s) >= 2
    /\ s[1] = "@"
    /\ \A i \in 2 .. Len(s) : s[i] \in RefGrammarChars

\* C9: is_valid_ref accepts exactly the strings of the Ref grammar, and Ref::new
\* and Ref::from_str return Ok (of that string) exactly for them.
C9_RefGrammar ==
    /\ call = "Ref::is_valid_ref" => (ret.bool <=> RefGrammar(arg.s))
    /\ call \in {"Ref::new", "Ref::from_str"}
          => /\ IsOk(ret) <=> RefGrammar(arg.s)
             /\ IsOk(ret) => ret.v = [t |-> "Ref", s |-> arg.s]

C9_Witness ==
    /\ call = "Ref::new"
    /\ arg.s = <<"@", "Z", "~">>
    /\ IsOk(ret)

\* one segment, or two separated by one `:`, each matching the pattern as a whole
SymbolGrammar(s) ==
    /\ Len(s) >= 1
    /\ s[1] = "^"
    /\ LET sections == split(Tail_from(s, 2), ":") IN
          /\ Len(sections) <= 2
          /\ \A i \in 1 .. Len(sections) : re_matches_all(sections[i])

\* C10 (as claimed): is_valid_symbol accepts exactly `^` followed by one or two
\* `:`-separated segments each matching the pattern as a whole, and Symbol::new
\* and Symbol::from_str return Ok exactly for them.
C10_SymbolGrammar ==
    /\ call = "Symbol::is_valid_symbol" => (ret.bool <=> SymbolGrammar(arg.s))
    /\ call \in {"Symbol::new", "Symbol::from_str"}
          => (IsOk(ret) <=> SymbolGrammar(arg.s))

\* `^`, then one segment or two separated by the only `:`, each segment holding
\* at least one lower-case ASCII letter
SymbolGrammarUnanchored(s) ==
    /\ Len(s) >= 1
    /\ s[1] = "^"
    /\ LET colons == {i \in 2 .. Len(s) : s[i] = ":"} IN
          \/ /\ colons = {}
             /\ \E i \in 2 .. Len(s) : s[i] \in AsciiLower
          \/ \E c \in colons :
                /\ colons = {c}
                /\ \E i \in 2 .. c - 1 : s[i] \in AsciiLower
                /\ \E i \in c + 1 .. Len(s) : s[i] \in AsciiLower

\* C10 (amended): is_valid_symbol accepts exactly `^` followed by one segment or
\* two segments separated by a single `:`, where each segment contains a match
\* of the pattern, that is, at least one lower-case ASCII letter; Symbol::new and
\* Symbol::from_str return Ok, of the Symbol holding the string, exactly for
\* the accepted strings.
C10_SymbolGrammarUnanchored ==
    /\ call = "Symbol::is_valid_symbol"
          => (ret.bool <=> SymbolGrammarUnanchored(arg.s))
    /\ call \in {"Symbol::new", "Symbol::from_str"}
          => /\ IsOk(ret) <=> SymbolGrammarUnanchored(arg.s)
             /\ IsOk(ret) => ret.v = Symbol(arg.s)

C10_Witness ==
    /\ call = "Symbol::new"
    /\ arg.s = <<"^", "a", "-", "a">>
    /\ IsOk(ret)
    /\ ~SymbolGrammar(arg.s)

\* the object {_kind: "ref", val: v}
RefObject(v) == JObj([key \in {S_kind, "val"} |-> IF key = S_kind THEN JStr(S_ref) ELSE JStr(v)])

\* C11: a valid Ref `@`+id is encoded as {_kind: "ref", val: id} and decoded
\* from it as itself; Ref::from_hayson of a correctly tagged object whose val is
\* the string v is Ok(Ref `@`+v) when `@`+v satisfies the Ref grammar and an
\* error otherwise.
C11_RefHayson ==
    /\ call = "Ref::to_hayson"
          => /\ held.s[1] = "@"
             /\ ret = RefObject(Tail(held.s))
    /\ (call = "Ref::from_hayson" /\ src = "encoded" /\ held.t = "Ref")
          => ret = Ok(held)
    /\ (call = "Ref::from_hayson" /\ arg.k = "obj")
          => \A v \in {<<"a", "b">>, <<"A", "/">>, << >>} \cup {Tail(s) : s \in RefInputs \ {<< >>}} :
                (/\ S_kind \in DOMAIN arg.o /\ arg.o[S_kind] = JStr(S_ref)
                 /\ "val" \in DOMAIN arg.o /\ arg.o["val"] = JStr(v))
                   => IF RefGrammar(<<"@">> \o v)
                      THEN ret = Ok(Ref(<<"@">> \o v))
                      ELSE IsErr(ret)

C11_Witness ==
    /\ call = "Ref::from_hayson"
    /\ src = "encoded"
    /\ held = Ref(<<"@", "r", ":">>)
    /\ arg = RefObject(<<"r", ":">>)
    /\ ret = Ok(held)

\* C12: for a valid Ref, to_encoded_json_string is the string with the leading
\* `@` replaced by `r:` and from_encoded_json_string of it is Ok of the Ref; for
\* a valid Symbol, likewise with `^` and `y:`.
C12_EncodedStringInverse ==
    /\ call = "Ref::to_encoded_json_string"
          => ret.s = <<"r", ":">> \o Tail(held.s)
    /\ (call = "Ref::from_encoded_json_string" /\ src = "encoded_string"
            /\ held.t = "Ref")
          => ret = Ok(held)
    /\ call = "Symbol::to_encoded_json_string"
          => ret.s = <<"y", ":">> \o Tail(held.s)
    /\ (call = "Symbol::from_encoded_json_string" /\ src = "encoded_string"
            /\ held.t = "Symbol")
          => ret = Ok(held)

C12_Witness ==
    /\ call = "Symbol::from_encoded_json_string"
    /\ src = "encoded_string"
    /\ held = Symbol(<<"^", "a", ":", "a">>)
    /\ arg.s = <<"y", ":", "a", ":", "a">>
    /\ ret = Ok(held)

\* the tag each type writes
TagOf(type) ==
    CASE type = "Coord" -> S_coord
      [] type = "Symbol" -> S_symbol
      [] type = "Uri" -> S_uri
      [] type = "Xstr" -> S_xstr
      [] type = "Marker" -> S_marker
      [] type = "RemoveMarker" -> S_remove
      [] type = "Na" -> S_na

RemainingTypes == {"Coord", "Symbol", "Uri", "Xstr", "Marker", "RemoveMarker", "Na"}

\* C13: for a Coord with finite lat and lng, a valid Symbol, a Uri, an Xstr and
\* the singletons Marker, RemoveMarker and Na, from_hayson of to_hayson is Ok of
\* an equal value; to_hayson's _kind is the type's tag, and an Xstr's type is
\* its type name and its val its value.
C13_RemainingRoundTrip ==
    \A type \in RemainingTypes :
        /\ (call = type \o "::to_hayson")
              => /\ ret.k = "obj"
                 /\ ret.o[S_kind] = JStr(TagOf(type))
                 /\ type = "Xstr" => /\ ret.o["type"] = JStr(held.type_name)
                                      /\ ret.o["val"] = JStr(held.value)
        /\ (call = type \o "::from_hayson" /\ src = "encoded" /\ held.t = type
                /\ (type = "Coord" => is_finite(held.lat) /\ is_finite(held.lng)))
              => ret = Ok(held)

C13_Witness ==
    /\ call = "Xstr::from_hayson"
    /\ src = "encoded"
    /\ held = Xstr_new(<<"C", "o", "l", "o", "r">>, <<"r", "e", "d">>)
    /\ ret = Ok(held)

S_n == <<"n", ":">>

\* decimals with the double each denotes, exponents with their i32, and unit
\* parts with the unit each denotes
DecimalTexts ==
    {[text |-> <<"1">>, value |-> Fin(1, 0)],
     [text |-> <<"-", "2">>, value |-> Fin(-2, 0)],
     [text |-> <<"1", ".", "5">>, value |-> Fin(15, -1)],
     [text |-> <<".", "5">>, value |-> Fin(5, -1)],
     [text |-> <<"+", "2", "0">>, value |-> Fin(2, 1)]}
ExponentTexts ==
    {[text |-> <<"2">>, value |-> 2],
     [text |-> <<"+", "2">>, value |-> 2],
     [text |-> <<"-", "1">>, value |-> -1],
     [text |-> <<"0", "5">>, value |-> 5]}
UnitTexts ==
    {[text |-> << >>, value |-> None],
     [text |-> <<" ", "m">>, value |-> Some(<<"m">>)],
     [text |-> <<" ", "k", "g", " ">>, value |-> Some(<<"k", "g">>)]}

LiteralTexts ==
    {[text |-> S_INF, value |-> INFINITY],
     [text |-> S_NegINF, value |-> NEG_INFINITY],
     [text |-> S_NaN, value |-> NAN],
     [text |-> <<"-">> \o S_NaN, value |-> NAN],
     [text |-> <<"+">> \o S_NaN, value |-> NAN]}

\* C15: `n:INF` is parsed as +Infinity, `n:-INF` as -Infinity and `n:NaN`,
\* `n:-NaN` and `n:+NaN` as NaN, each as a plain Number; a unit after a space
\* is kept as the Number's unit.
C15_ParsesLiterals ==
    call = "Number::from_encoded_json_string"
        => \A lit \in LiteralTexts, unit \in UnitTexts :
              arg.s = S_n \o lit.text \o unit.text
                  => ret = Ok(Number_new(lit.value, unit.value))

C15_Witness ==
    /\ call = "Number::from_encoded_json_string"
    /\ arg.s = <<"n", ":", "-", "N", "a", "N", " ", "m">>
    /\ IsOk(ret)
    /\ is_nan(ret.v.value.f)
    /\ ret.v.unit = Some(<<"m">>)

\* C16 (as claimed): the ParseNumberError of a failed
\* Number::from_encoded_json_string carries the input string unchanged.
C16_ErrorCarriesInput ==
    (call = "Number::from_encoded_json_string" /\ IsErr(ret))
        => ret.e = ParseNumberError(arg.s)

\* the inputs of the form n:<magnitude>[e<exponent>][ <unit>]
ConformingInputs ==
    {S_n \o mag.text \o unit : mag \in DecimalTexts \cup LiteralTexts,
                               unit \in {<< >>, <<" ", "m">>}}
    \cup {S_n \o sig.text \o <<"e">> \o exp.text \o unit :
            sig \in DecimalTexts, exp \in ExponentTexts,
            unit \in {<< >>, <<" ", "m">>}}

\* no exponent part and no unit part is malformed, nor is the magnitude
Malformed(s) ==
    \E pre \in NumberPrefixes, mag \in NumberMagnitudes, exp \in NumberExponents,
       unit \in NumberUnits :
        /\ s = pre \o mag \o exp \o unit
        /\ \/ pre # S_n
           \/ mag \in {<<"x">>, <<"-">>, << >>}
           \/ exp \in {<<"e">>, <<"e", "1", ".", "5">>, <<"e", "2", "e", "3">>}
           \/ unit = <<" ", "m", " ", "x">>

\* C17 (as claimed): Number::from_encoded_json_string returns Ok for the
\* inputs of the form n:<magnitude>[e<exponent>][ <unit>] and an error for the
\* inputs with n: not at the start, with a magnitude that is not a number,
\* with two e, with an exponent that is not an integer or with a token after the
\* unit.
C17_RejectsMalformed ==
    call = "Number::from_encoded_json_string"
        => /\ arg.s \in ConformingInputs => IsOk(ret)
           /\ (Malformed(arg.s) /\ arg.s \notin ConformingInputs) => IsErr(ret)

Decoders ==
    {"Coord::from_hayson", "Ref::from_hayson", "Number::from_hayson",
     "Symbol::from_hayson", "Marker::from_hayson", "RemoveMarker::from_hayson",
     "Na::from_hayson", "Uri::from_hayson", "Xstr::from_hayson"}
Parsers ==
    {"Number::from_encoded_json_string", "Ref::from_encoded_json_string",
     "Symbol::from_encoded_json_string"}

Panicked(v) == "panic" \in DOMAIN v

\* a value of one of the nine types, none of whose parts is left by a panic
WholeValue(v) ==
    /\ "t" \in DOMAIN v
    /\ v.t \in {"Coord", "Ref", "Number", "Symbol", "Marker", "RemoveMarker", "Na",
                 "Uri", "Xstr"}
    /\ v.t = "Number" => ~Panicked(v.value.f)
    /\ v.t = "Coord" => ~Panicked(v.lat) /\ ~Panicked(v.lng)

\* C18: every from_hayson, on a JSON value of any shape, and every
\* from_encoded_json_string, on any string, returns Ok of a value or Err of its
\* error; none panics.
C18_DecodersTotal ==
    /\ call \in Decoders \cup Parsers
          => /\ ~Panicked(ret)
             /\ IsOk(ret) \/ IsErr(ret)
             /\ IsOk(ret) => WholeValue(ret.v)
    /\ (call \in Decoders /\ IsErr(ret)) => "fmt" \in DOMAIN ret.e
    /\ (call = "Number::from_encoded_json_string" /\ IsErr(ret))
          => "unparsable_number" \in DOMAIN ret.e
    /\ (call = "Ref::from_encoded_json_string" /\ IsErr(ret))
          => "unparsable_ref" \in DOMAIN ret.e
    /\ (call = "Symbol::from_encoded_json_string" /\ IsErr(ret))
          => "unparsable_symbol" \in DOMAIN ret.e

C18_Witness ==
    /\ call = "Ref::from_hayson"
    /\ src = "supplied"
    /\ arg = RefObject(<<"a", "b">>)
    /\ ret = Ok(Ref(<<"@", "a", "b">>))

\* the text of the three magnitudes that are not finite
SpecialText(f) ==
    IF is_nan(f) THEN S_NaN
    ELSE IF f = INFINITY THEN <<"i", "n", "f">>
    ELSE <<"-", "i", "n", "f">>

\* C19: a Number with a unit is displayed as its magnitude text, a space and the
\* unit, also when the magnitude is NaN or an infinity, while to_hayson of such
\* a Number has no unit; without a unit the display is the magnitude text
\* alone; a scientific magnitude is displayed as <significand>e<exponent>.
C19_DisplayKeepsUnit ==
    /\ call = "Number::fmt"
          => LET magnitude ==
                     IF held.value.nv = "Exponent"
                     THEN (IF is_finite(held.value.f) THEN fmt_f64(held.value.f)
                           ELSE SpecialText(held.value.f))
                            \o <<"e">> \o fmt_i32(held.value.e)
                     ELSE IF is_finite(held.value.f) THEN fmt_f64(held.value.f)
                     ELSE SpecialText(held.value.f)
             IN IF is_some(held.unit)
                THEN ret.s = magnitude \o <<" ">> \o held.unit[1]
                ELSE ret.s = magnitude
    /\ (call = "Number::to_hayson" /\ held.value.nv = "Basic"
            /\ ~is_finite(held.value.f))
          => "unit" \notin DOMAIN ret.o

C19_Witness ==
    /\ call = "Number::fmt"
    /\ held = Number_new(NAN, Some(<<"m", "/", "s">>))
    /\ ret.s = <<"N", "a", "N", " ", "m", "/", "s">>

\* C20: check_kind(expected, json) returns an error in three exclusive cases:
\* _kind is absent; it is present and not a string; it is a string other than
\* expected, compared exactly.  It returns no error exactly when _kind is
\* present, a string, and equal to expected.
C20_CheckKindCases ==
    call = "check_kind"
        => LET value == arg.value
               absent == value.k # "obj" \/ S_kind \notin DOMAIN value.o
               not_string == ~absent /\ value.o[S_kind].k # "str"
               mismatch == /\ ~absent
                           /\ value.o[S_kind].k = "str"
                           /\ value.o[S_kind].s # arg.target_kind
           IN
           /\ ret.opt = None <=> ~(absent \/ not_string \/ mismatch)
           /\ absent => ret.opt = Some(FromHaysonError(MsgMissingKind, << >>))
           /\ not_string => ret.opt = Some(FromHaysonError(MsgKindNotString, << >>))
           /\ mismatch => /\ ret.opt # None
                          /\ ret.opt[1].fmt = MsgKindMismatch

C20_Witness ==
    /\ call = "check_kind"
    /\ arg.target_kind = S_number
    /\ arg.value.k = "obj"
    /\ S_kind \in DOMAIN arg.value.o
    /\ arg.value.o[S_kind] = JStr(<<"N", "u", "m", "b", "e", "r">>)
    /\ ret.opt # None
    /\ ret.opt[1].fmt = MsgKindMismatch

\* C21 (as claimed): the encoding of a value built by a public constructor is
\* accepted by the decoder of its type, also for a Coord with a NaN or infinite
\* lat or lng and for a scientific Number whose significand * 10^exponent
\* overflows or underflows.
C21_EncodingAccepted ==
    \A type \in {"Coord", "Ref", "Number", "Symbol", "Marker", "RemoveMarker", "Na",
                  "Uri", "Xstr"} :
        (call = type \o "::from_hayson" /\ src = "encoded" /\ held.t = type)
            => IsOk(ret)

\* arg is an object tagged as a number
TaggedNumber ==
    /\ call = "Number::from_hayson"
    /\ arg.k = "obj"
    /\ S_kind \in DOMAIN arg.o
    /\ arg.o[S_kind] = JStr(S_number)

\* what the val v decodes to once the unit is known to be unit
DecodedVal(r, v, unit) ==
    IF v = JStr(S_INF) THEN r = Ok(Number_new(INFINITY, unit))
    ELSE IF v = JStr(S_NegINF) THEN r = Ok(Number_new(NEG_INFINITY, unit))
    ELSE IF v = JStr(S_NaN) THEN r = Ok(Number_new(NAN, None))
    ELSE IF v.k = "num" THEN r = Ok(Number_new(v.f, unit))
    ELSE IF v.k = "str"
         THEN r = error("Number val is a string but is not one of INF, -INF or NaN")
    ELSE r = error("Number val must be either a number or a string")

\* C22: on an object tagged as a number, Number::from_hayson checks that val is
\* present, then that unit is absent, null or a string, then the shape of val:
\* a missing val is reported as missing whatever unit is; a unit that is neither
\* null nor a string gives the unit error whatever val is; a null unit is
\* treated as an absent one.
C22_NumberCheckOrder ==
    TaggedNumber
        => LET fields == DOMAIN arg.o
               bad_unit == /\ "unit" \in fields
                           /\ arg.o["unit"].k \notin {"null", "str"}
           IN
           /\ "val" \notin fields => ret = error("Number val is missing")
           /\ ("val" \in fields /\ bad_unit)
                 => ret = error("Number unit is not a string")
           /\ ("val" \in fields /\ ~bad_unit)
                 => DecodedVal(ret, arg.o["val"],
                               IF "unit" \in fields /\ arg.o["unit"].k = "str"
                               THEN Some(arg.o["unit"].s) ELSE None)

C22_Witness ==
    /\ TaggedNumber
    /\ "val" \in DOMAIN arg.o
    /\ arg.o["val"] = JStr(S_NaN)
    /\ "unit" \in DOMAIN arg.o
    /\ arg.o["unit"] = JNum(Fin(1, 0))
    /\ ret = error("Number unit is not a string")

\* C23: Number::from_hayson of an object tagged as a number with val "INF" or
\* "-INF" and a string unit u returns the infinite Number with unit Some(u);
\* to_hayson of that Number is the object without its unit.
C23_InfinityKeepsUnit ==
    /\ (/\ TaggedNumber
        /\ "val" \in DOMAIN arg.o
        /\ arg.o["val"] \in {JStr(S_INF), JStr(S_NegINF)}
        /\ "unit" \in DOMAIN arg.o
        /\ arg.o["unit"].k = "str")
          => ret = Ok(Number_new(IF arg.o["val"] = JStr(S_INF) THEN INFINITY
                                 ELSE NEG_INFINITY,
                                 Some(arg.o["unit"].s)))
    /\ (/\ src = "reencoded"
        /\ json.k = "obj"
        /\ "val" \in DOMAIN json.o
        /\ json.o["val"] \in {JStr(S_INF), JStr(S_NegINF)}
        /\ "unit" \in DOMAIN json.o
        /\ json.o["unit"].k = "str")
          => /\ is_infinite(held.value.f)
             /\ held.unit = Some(json.o["unit"].s)
             /\ ret.k = "obj"
             /\ DOMAIN ret.o = DOMAIN json.o \ {"unit"}
             /\ \A key \in DOMAIN ret.o : ret.o[key] = json.o[key]

C23_Witness ==
    /\ src = "reencoded"
    /\ json = MkObject([_kind |-> Some(JStr(S_number)), val |-> Some(JStr(S_NegINF)),
                        unit |-> Some(JStr(<<"m", "/", "s">>))])
    /\ held = Number_new(NEG_INFINITY, Some(<<"m", "/", "s">>))
    /\ "unit" \notin DOMAIN ret.o

=============================================================================
